---- MODULE Spec2Model ----
(***************************************************************************)
(* Model of the Lingbuzz scrapper notebook (src/LinguistSearch.ipynb).     *)
(*                                                                         *)
(* Strings are sequences of one-character strings, so that the regular     *)
(* expressions, lower(), strip(), split() and join() of the notebook are   *)
(* computed character by character.  The notebook is Python 2.7 code       *)
(* (kernel "python2", `except X, e` syntax) and is modelled as such.       *)
(*                                                                         *)
(* Four specifications share the variables:                                *)
(*   Spec / LiveSpec  the whole notebook: load the corpus, crawl, run the  *)
(*                    supplementary processing, save the corpus;           *)
(*   SpecListing      the anchor scan of fetchDocIdAndNextPage;            *)
(*   SpecDoc          parse_doc followed by the supplementary processing;  *)
(*   SpecNorm         the supplementary processing applied twice.          *)
(***************************************************************************)
EXTENDS Integers, Sequences, FiniteSets, TLC

VARIABLES
    pc,         \* position in the notebook / in the function under study
    arg,        \* input of the function under study (pure specifications)
    ret,        \* its result
    site,       \* the remote site: listing URL -> anchors of that page
    ref_dict,   \* the in-memory corpus (doc id -> article)
    corpus,     \* contents of Data/lingbuzzCorpus.json
    next_page,  \* URL of the listing page to process next
    id_list,    \* ids of the current listing page that are still to visit
    request,    \* doc id requested from the site by the last step, if any
    listed,     \* history: ids returned by the listing scans of this run
    visited,    \* history: listing URLs fetched in this run
    revisit,    \* history: a next link of this run led to a visited URL
    runs,       \* number of runs of the crawl cell started so far
    writes,     \* history: number of json.dump calls in this run
    corpus0,    \* history: contents of the corpus file when the run began
    prevOK      \* history: this run loaded what a completed run just saved

vars == <<pc, arg, ret, site, ref_dict, corpus, next_page, id_list, request,
          listed, visited, revisit, runs, writes, corpus0, prevOK>>

(***************************************************************************)
(* Bounds of the model.                                                    *)
(***************************************************************************)
MaxAnchors == 2      \* anchors per listing page, SpecListing
MaxListing == 2      \* document links per listing page of the crawled site
MaxRuns == 2         \* runs of the crawl cell
MaxAut == 2          \* authors of an enumerated document page
MaxExc == 1          \* excerpt strings of an enumerated document page
MaxKwd == 2          \* keywords of an enumerated record

(***************************************************************************)
(* Character-level string functions of Python.                             *)
(***************************************************************************)
Digits == {"0", "1", "2", "3", "4", "5", "6", "7", "8", "9"}

UpperCase == <<"A", "B", "C", "D", "E", "F", "G", "H", "I", "J", "K", "L", "M",
               "N", "O", "P", "Q", "R", "S", "T", "U", "V", "W", "X", "Y", "Z">>

LowerCase == <<"a", "b", "c", "d", "e", "f", "g", "h", "i", "j", "k", "l", "m",
               "n", "o", "p", "q", "r", "s", "t", "u", "v", "w", "x", "y", "z">>

Whitespace == {" ", "\t", "\n", "\r", "\f"}

\* characters outside ASCII that the page samples use
NonAscii == {"U+00E9"}

LowerChar(c) ==
    IF \E i \in 1..26 : UpperCase[i] = c
    THEN LowerCase[CHOOSE i \in 1..26 : UpperCase[i] = c]
    ELSE c

\* s.lower()
Lower(s) == [i \in 1..Len(s) |-> LowerChar(s[i])]

RECURSIVE LStrip(_)
LStrip(s) == IF s # <<>> /\ Head(s) \in Whitespace THEN LStrip(Tail(s)) ELSE s

RECURSIVE RStrip(_)
RStrip(s) ==
    IF s # <<>> /\ s[Len(s)] \in Whitespace
    THEN RStrip(SubSeq(s, 1, Len(s) - 1))
    ELSE s

\* s.strip()
Strip(s) == RStrip(LStrip(s))

\* s.encode("ascii", "ignore")
AsciiIgnore(s) == SelectSeq(s, LAMBDA c : c \notin NonAscii)

\* s starts with p at position i
HasAt(s, i, p) ==
    /\ i >= 1
    /\ i + Len(p) - 1 <= Len(s)
    /\ SubSeq(s, i, i + Len(p) - 1) = p

AllDigits(s, i, j) == \A k \in i..j : s[k] \in Digits

\* lst.index(x): 0 stands for ValueError
IndexOf(lst, x) ==
    IF \E i \in 1..Len(lst) : lst[i] = x
    THEN CHOOSE i \in 1..Len(lst) : lst[i] = x /\ \A j \in 1..(i - 1) : lst[j] # x
    ELSE 0

RECURSIVE Join(_, _)
\* sep.join(lst)
Join(sep, lst) ==
    IF lst = <<>> THEN <<>>
    ELSE IF Len(lst) = 1 THEN lst[1]
    ELSE lst[1] \o sep \o Join(sep, Tail(lst))

RECURSIVE Split(_, _)
\* s.split(c) for a one-character separator c
Split(s, c) ==
    IF \E i \in 1..Len(s) : s[i] = c
    THEN LET i == CHOOSE i \in 1..Len(s) : s[i] = c /\ \A j \in 1..(i - 1) : s[j] # c
         IN  <<SubSeq(s, 1, i - 1)>> \o Split(SubSeq(s, i + 1, Len(s)), c)
    ELSE <<s>>

RECURSIVE ToInt(_)
\* int(s) for a string of decimal digits
ToInt(s) ==
    IF s = <<>> THEN 0
    ELSE 10 * ToInt(SubSeq(s, 1, Len(s) - 1))
         + (CHOOSE d \in 0..9 : ToString(d) = s[Len(s)])

\* sequences over S of length at most n
SeqUpTo(S, n) == UNION {[1..k -> S] : k \in 0..n}

(***************************************************************************)
(* Literals of the notebook.                                               *)
(***************************************************************************)
url_base == <<"h", "t", "t", "p", ":", "/", "/", "l", "i", "n", "g", "b", "u",
              "z", "z", ".", "a", "u", "f", ".", "n", "e", "t">>

start_path == <<"/", "l", "i", "n", "g", "b", "u", "z", "z">>

IdLen == 6

NextPrefix == <<"N", "e", "x", "t", " ">>

NextSuffix == <<" ", "a", "r", "t", "i", "c", "l", "e", "s">>

(***************************************************************************)
(* fetchDocIdAndNextPage: the scan of the anchors of a listing page.       *)
(* An anchor is [has_href, href, text]: item.get("href") is None when the  *)
(* anchor has no href attribute; text is item.get_text(strip = True).      *)
(***************************************************************************)

\* re.search(r'\d{6}$', href): $ matches at the end of the string and also
\* just before a newline that ends the string.
SearchId(href) ==
    LET e == IF href # <<>> /\ href[Len(href)] = "\n" THEN Len(href) - 1
             ELSE Len(href)
    IN  IF e >= IdLen /\ AllDigits(href, e - IdLen + 1, e)
        THEN [found |-> TRUE, group |-> SubSeq(href, e - IdLen + 1, e)]
        ELSE [found |-> FALSE, group |-> <<>>]

\* re.search(r'Next \d+ articles', text) finds a match
SearchNext(text) ==
    \E i \in 1..Len(text) : \E n \in 1..Len(text) :
        /\ HasAt(text, i, NextPrefix)
        /\ i + Len(NextPrefix) + n - 1 <= Len(text)
        /\ AllDigits(text, i + Len(NextPrefix), i + Len(NextPrefix) + n - 1)
        /\ HasAt(text, i + Len(NextPrefix) + n, NextSuffix)

RECURSIVE ScanAnchors(_, _, _)
\* the loop `for item in bs.find_all('a')`; raised: re.search got None
ScanAnchors(items, ids, nxt) ==
    IF items = <<>> THEN [raised |-> FALSE, id_list |-> ids, next_page |-> nxt]
    ELSE LET item == Head(items) IN
         IF ~item.has_href
         THEN [raised |-> TRUE, id_list |-> <<>>, next_page |-> <<>>]
         ELSE LET match_id == SearchId(item.href)
                  match_lk == SearchNext(item.text)
              IN  IF match_id.found
                  THEN ScanAnchors(Tail(items), Append(ids, match_id.group), nxt)
                  ELSE IF match_lk
                  THEN ScanAnchors(Tail(items), ids, item.href)
                  ELSE ScanAnchors(Tail(items), ids, nxt)

fetchDocIdAndNextPage(anchors) == ScanAnchors(anchors, <<>>, <<>>)

(***************************************************************************)
(* parse_doc.  A document page is [has_center, head, body]: head and body  *)
(* are the stripped strings that get_text("\n", strip = True) joins for    *)
(* parsed.body.center and for parsed.body; has_center is FALSE when the    *)
(* body has no <center> element (parsed.body.center is None).              *)
(* A value of a field that changes type is [type, n, s, items].            *)
(***************************************************************************)
MarkPub == <<"p", "u", "b", "l", "i", "s", "h", "e", "d", " ", "i", "n", ":">>

MarkKwd == <<"k", "e", "y", "w", "o", "r", "d", "s", ":">>

MarkCnt == <<"d", "o", "w", "n", "l", "o", "a", "d", "e", "d", ":">>

MarkFmt == <<"f", "o", "r", "m", "a", "t", ":">>

NotAvailable == <<"N", "/", "A">>

Comma == <<",">>

Punctuation == {";", ":", ".", ",", "(", ")"}

IntVal(n) == [type |-> "int", n |-> n, s |-> <<>>, items |-> <<>>]

StrVal(s) == [type |-> "str", n |-> 0, s |-> s, items |-> <<>>]

ListVal(l) == [type |-> "list", n |-> 0, s |-> <<>>, items |-> l]

\* get_text("\n", strip = True).lower().split("\n")
TextLines(strings) == Split(Lower(Join(<<"\n">>, strings)), "\n")

\* the loop over text_head[1:-1]
Authors(text_head) ==
    LET mid == IF Len(text_head) >= 2 THEN SubSeq(text_head, 2, Len(text_head) - 1)
               ELSE <<>>
        kept == SelectSeq(mid, LAMBDA val : val # Comma)
    IN  [i \in 1..Len(kept) |-> AsciiIgnore(kept[i])]

\* text_body[text_body.index(marker) + 1]
AfterMarker(text_body, marker) ==
    LET i == IndexOf(text_body, marker) IN
    IF i = 0 THEN [raised |-> "ValueError", val |-> <<>>]
    ELSE IF i + 1 > Len(text_body) THEN [raised |-> "IndexError", val |-> <<>>]
    ELSE [raised |-> "", val |-> text_body[i + 1]]

\* the try/except ValueError around the lookup of "published in:"
ExtractPub(text_body) ==
    LET r == AfterMarker(text_body, MarkPub) IN
    IF r.raised = "ValueError" THEN [raised |-> "", val |-> NotAvailable] ELSE r

\* variant: the slice starts at the date line itself
ExtractExc_FromDate(text_body, dat) ==
    LET a == IndexOf(text_body, dat)
        b == IndexOf(text_body, MarkFmt)
    IN  IF a = 0 \/ b = 0 THEN [raised |-> "ValueError", val |-> <<>>]
        ELSE [raised |-> "", val |-> Join(<<" ">>, SubSeq(text_body, a, b - 1))]

\* text_body[text_body.index(dat) + 1 : text_body.index("format:")], joined
ExtractExc(text_body, dat) ==
    LET a == IndexOf(text_body, dat)
        b == IndexOf(text_body, MarkFmt)
    IN  IF a = 0 \/ b = 0 THEN [raised |-> "ValueError", val |-> <<>>]
        ELSE [raised |-> "", val |-> Join(<<" ">>, SubSeq(text_body, a + 1, b - 1))]

NoArticle ==
    [ref |-> <<>>, tit |-> <<>>, dat |-> <<>>, aut |-> <<>>, pub |-> <<>>,
     kwd |-> StrVal(<<>>), cnt |-> StrVal(<<>>), exc |-> <<>>]

Raise(err, where) == [raised |-> err, where |-> where, article |-> NoArticle]

parse_doc(page, doc_id) ==
    IF ~page.has_center THEN Raise("AttributeError", "center")
    ELSE
    LET text_head == TextLines(page.head)
        text_body == TextLines(page.body)
        tit == text_head[1]
        dat == text_head[Len(text_head)]
        pub == ExtractPub(text_body)
        kwd == AfterMarker(text_body, MarkKwd)
        cnt == AfterMarker(text_body, MarkCnt)
        exc == ExtractExc(text_body, dat)
    IN  IF pub.raised # "" THEN Raise(pub.raised, "pub")
        ELSE IF kwd.raised # "" THEN Raise(kwd.raised, "kwd")
        ELSE IF cnt.raised # "" THEN Raise(cnt.raised, "cnt")
        ELSE IF exc.raised # "" THEN Raise(exc.raised, "exc")
        ELSE [raised |-> "", where |-> "",
              article |-> [ref |-> doc_id, tit |-> tit, dat |-> dat,
                           aut |-> Authors(text_head), pub |-> pub.val,
                           kwd |-> StrVal(kwd.val), cnt |-> StrVal(cnt.val),
                           exc |-> exc.val]]

(***************************************************************************)
(* Supplementary processing of one article (body of `for k in ref_dict`).  *)
(***************************************************************************)

\* re.search(r'\d+', s).group(): the first run of digits; <<>> when the
\* search returns None
FirstDigits(s) ==
    IF \E i \in 1..Len(s) : s[i] \in Digits
    THEN LET i == CHOOSE i \in 1..Len(s) :
                      s[i] \in Digits /\ \A j \in 1..(i - 1) : s[j] \notin Digits
             e == CHOOSE e \in i..Len(s) :
                      /\ AllDigits(s, i, e)
                      /\ (e = Len(s) \/ s[e + 1] \notin Digits)
         IN  SubSeq(s, i, e)
    ELSE <<>>

\* variant: no test of the type, re.search is applied to an integer too
NormCnt_NoTypeCheck(cnt) ==
    IF cnt.type # "str" THEN [raised |-> "TypeError", val |-> cnt]
    ELSE IF FirstDigits(cnt.s) = <<>> THEN [raised |-> "AttributeError", val |-> cnt]
    ELSE [raised |-> "", val |-> IntVal(ToInt(FirstDigits(cnt.s)))]

\* `if type(cnt) != int: cnt = int(re.search(r'\d+', cnt).group())`
NormCnt(cnt) ==
    IF cnt.type # "int"
    THEN IF cnt.type # "str" THEN [raised |-> "TypeError", val |-> cnt]
         ELSE IF FirstDigits(cnt.s) = <<>> THEN [raised |-> "AttributeError", val |-> cnt]
         ELSE [raised |-> "", val |-> IntVal(ToInt(FirstDigits(cnt.s)))]
    ELSE [raised |-> "", val |-> cnt]

\* re.sub(r'[;:.\,()]', '', exc).lower()
NormExc(exc) == Lower(SelectSeq(exc, LAMBDA c : c \notin Punctuation))

\* variant: the tokens are not stripped
NormKwd_NoStrip(kwd) ==
    IF kwd.type = "list"
    THEN ListVal([i \in 1..Len(kwd.items) |-> Lower(kwd.items[i])])
    ELSE LET parts == Split(kwd.s, ",")
         IN  ListVal([i \in 1..Len(parts) |-> Lower(parts[i])])

\* kwd: lower-cased when a list, else split(','), strip() and lower()
NormKwd(kwd) ==
    IF kwd.type = "list"
    THEN ListVal([i \in 1..Len(kwd.items) |-> Lower(kwd.items[i])])
    ELSE LET parts == Split(kwd.s, ",")
         IN  ListVal([i \in 1..Len(parts) |-> Lower(Strip(parts[i]))])

\* raised # "": the article is left as it was (cnt is processed first)
NormalizeArticle(a) ==
    LET c == NormCnt(a.cnt) IN
    IF c.raised # "" THEN [raised |-> c.raised, article |-> a]
    ELSE [raised |-> "",
          article |-> [a EXCEPT !.cnt = c.val, !.exc = NormExc(a.exc),
                                !.kwd = NormKwd(a.kwd)]]

(***************************************************************************)
(* Inputs of the pure specifications.                                      *)
(***************************************************************************)
HrefDoc1 == <<"/", "l", "i", "n", "g", "b", "u", "z", "z", "/", "0", "0", "4", "5", "1", "2">>

HrefDoc2 == <<"/", "l", "i", "n", "g", "b", "u", "z", "z", "/", "0", "0", "4", "5", "1", "3">>

HrefSeven == <<"/", "l", "i", "n", "g", "b", "u", "z", "z", "/", "1", "0", "0", "4", "5", "1", "2">>

HrefNext == <<"/", "l", "i", "n", "g", "b", "u", "z", "z", "?", "s", "t", "a", "r", "t", "=", "5", "0">>

HrefNextSix == <<"/", "l", "i", "n", "g", "b", "u", "z", "z", "?", "s", "t", "a", "r", "t", "=", "1", "0", "0", "0", "0", "0">>

HrefAbout == <<"/", "a", "b", "o", "u", "t">>

TextPaper == <<"a", " ", "p", "a", "p", "e", "r">>

TextNext == <<"N", "e", "x", "t", " ", "5", "0", " ", "a", "r", "t", "i", "c", "l", "e", "s">>

TextNextLower == <<"n", "e", "x", "t", " ", "5", "0", " ", "a", "r", "t", "i", "c", "l", "e", "s">>

TextNextNoCount == <<"N", "e", "x", "t", " ", "a", "r", "t", "i", "c", "l", "e", "s">>

Id1 == <<"0", "0", "4", "5", "1", "2">>

Id2 == <<"0", "0", "4", "5", "1", "3">>

Anchor(h, t) == [has_href |-> TRUE, href |-> h, text |-> t]

AnchorNoHref == [has_href |-> FALSE, href |-> <<>>, text |-> TextPaper]

Hrefs == {HrefDoc1, HrefDoc2, HrefSeven, HrefNext, HrefNextSix, HrefAbout}

Texts == {TextPaper, TextNext, TextNextLower, TextNextNoCount}

Anchors == {Anchor(h, t) : h \in Hrefs, t \in Texts} \cup {AnchorNoHref}

ListingInputs == SeqUpTo(Anchors, MaxAnchors)

\* --- document pages ---
RawTitle == <<"D", "o", "c", " ", "T", "i", "t", "l", "e">>

RawDate == <<"2", "0", "2", "0", "-", "0", "1", "-", "0", "1">>

RawAuthors ==
    {<<"J", "a", "n", "e", " ", "D", "o", "e">>, <<"J", "o", "s", "U+00E9">>}

RawMarkPub == <<"P", "u", "b", "l", "i", "s", "h", "e", "d", " ", "i", "n", ":">>

RawVenue == <<"J", "o", "u", "r", "n", "a", "l", " ", "o", "f", " ", "S", "y", "n", "t", "a", "x">>

RawMarkFmt == <<"F", "o", "r", "m", "a", "t", ":">>

RawMarkCnt == <<"D", "o", "w", "n", "l", "o", "a", "d", "e", "d", ":">>

RawPdf == <<"p", "d", "f">>

RawKwds ==
    {<<"S", "y", "n", "t", "a", "x", ",", " ", "S", "e", "m", "a", "n", "t", "i", "c", "s">>,
     <<"S", "y", "n", "t", "a", "x", " ", ",", ",", "s", "e", "m", "a", "n", "t", "i", "c", "s">>}

RawCnts ==
    {<<"4", "2", " ", "t", "i", "m", "e", "s">>,
     <<"m", "a", "n", "y", " ", "t", "i", "m", "e", "s">>}

RawExcs ==
    {<<"S", "o", "m", "e", " ", "(", "e", "x", "c", "e", "r", "p", "t", ")", " ", "t", "e", "x", "t", ".">>}

RECURSIVE WithCommas(_)
\* the site separates the authors of the header by "," strings
WithCommas(auts) ==
    IF Len(auts) <= 1 THEN auts
    ELSE <<auts[1], Comma>> \o WithCommas(Tail(auts))

\* the strings of a whole document page, in the two layouts considered:
\* "site": header, excerpt, format, venue, keywords, downloads;
\* "fields_first": header, venue, keywords, downloads, title, excerpt, format
PageBody(layout, auts, has_pub, kw, cn, exc) ==
    LET head == <<RawTitle>> \o WithCommas(auts) \o <<RawDate>>
        pub == IF has_pub THEN <<RawMarkPub, RawVenue>> ELSE <<>>
        fields == pub \o <<MarkKwd, kw, RawMarkCnt, cn>>
    IN  IF layout = "site"
        THEN head \o exc \o <<RawMarkFmt, RawPdf>> \o fields
        ELSE head \o fields \o <<RawTitle>> \o exc \o <<RawMarkFmt, RawPdf>>

\* the page received when the read stops after n strings of the body
\* (httplib.IncompleteRead: the partial page is parsed)
Page(body, head_len, n) ==
    [has_center |-> n >= 1,
     head |-> SubSeq(body, 1, IF n < head_len THEN n ELSE head_len),
     body |-> SubSeq(body, 1, n)]

DocInputs ==
    UNION {LET body == PageBody(layout, auts, has_pub, kw, cn, exc)
               head_len == Len(WithCommas(auts)) + 2
           IN  {Page(body, head_len, n) : n \in 0..Len(body)} :
           layout \in {"site", "fields_first"}, auts \in SeqUpTo(RawAuthors, MaxAut),
           has_pub \in BOOLEAN, kw \in RawKwds, cn \in RawCnts,
           exc \in SeqUpTo(RawExcs, MaxExc)}

\* the page of the concrete scenario: thirteen lower-case lines, the first
\* three of them in the header
ScenarioBody ==
    << <<"d", "o", "c", " ", "t", "i", "t", "l", "e">>,
       <<"j", "a", "n", "e", " ", "d", "o", "e">>,
       <<"2", "0", "2", "0", "-", "0", "1", "-", "0", "1">>,
       <<"p", "u", "b", "l", "i", "s", "h", "e", "d", " ", "i", "n", ":">>,
       <<"j", "o", "u", "r", "n", "a", "l", " ", "o", "f", " ", "s", "y", "n", "t", "a", "x">>,
       <<"k", "e", "y", "w", "o", "r", "d", "s", ":">>,
       <<"s", "y", "n", "t", "a", "x", ",", " ", "s", "e", "m", "a", "n", "t", "i", "c", "s">>,
       <<"d", "o", "w", "n", "l", "o", "a", "d", "e", "d", ":">>,
       <<"4", "2", " ", "t", "i", "m", "e", "s">>,
       <<"d", "o", "c", " ", "t", "i", "t", "l", "e">>,
       <<"s", "o", "m", "e", " ", "e", "x", "c", "e", "r", "p", "t", " ", "t", "e", "x", "t">>,
       <<"f", "o", "r", "m", "a", "t", ":">>,
       <<"p", "d", "f">> >>

ScenarioPage == Page(ScenarioBody, 3, Len(ScenarioBody))

\* --- articles handed to the supplementary processing ---
KwdItems == {<<"s", "y", "n", "t", "a", "x">>, <<" ", "S", "y", "n", " ">>, <<>>}

CntInputs ==
    {IntVal(0), IntVal(42)}
    \cup {StrVal(s) : s \in {<<"4", "2", " ", "t", "i", "m", "e", "s">>,
                             <<"n", "o", ".", " ", "0", "0", "7", ",", " ", "1", "2">>}}

KwdInputs ==
    {ListVal(l) : l \in SeqUpTo(KwdItems, MaxKwd)}
    \cup {StrVal(s) : s \in RawKwds \cup {<<>>}}

ExcInputs == RawExcs \cup {<<>>, <<"a", ";", " ", "B", ":", "(", "c", ")", ",", ".">>}

NormInputs ==
    {[NoArticle EXCEPT !.ref = Id1, !.cnt = c, !.kwd = k, !.exc = e] :
        c \in CntInputs, k \in KwdInputs, e \in ExcInputs}

(***************************************************************************)
(* The notebook as a state machine.                                        *)
(*   load      cell 2: load Data/lingbuzzCorpus.json, or start empty       *)
(*   start     cell 5, before the loop                                     *)
(*   listing   top of `while True`                                         *)
(*   docs      inside `for id in id_list`                                  *)
(*   normalize cell 6                                                      *)
(*   save      cell 7                                                      *)
(*   saved     the notebook ran to its end                                 *)
(*   error     a cell raised; the cells after it did not run              *)
(* list_url is only ever appended to and never read: it is left out.       *)
(***************************************************************************)
EmptyMap == [k \in {} |-> NoArticle]

NoRequest == [some |-> FALSE, id |-> <<>>]

\* links to two documents
CrawlDocAnchors == {Anchor(HrefDoc1, TextPaper), Anchor(HrefDoc2, TextPaper)}

\* the link to the second listing page (on the second page itself, a link
\* back to that page)
CrawlNextAnchor == Anchor(HrefNext, TextNext)

\* listing pages the site may hold: links to documents, then the next link
\* or none
CrawlListings ==
    {docs \o nxt : docs \in SeqUpTo(CrawlDocAnchors, MaxListing),
                   nxt \in {<<>>, <<CrawlNextAnchor>>}}

\* document pages the site may serve (short strings): a complete page,
\* the page cut after "published in:", a page whose download count has no
\* digit
CrawlKwd == <<"A", ",", " ", "b">>

CrawlCnt == <<"4", " ", "x">>

CrawlExc == <<"E", ".">>

CrawlGoodPage ==
    LET body == PageBody("site", <<>>, FALSE, CrawlKwd, CrawlCnt, <<CrawlExc>>)
    IN  Page(body, 2, Len(body))

CrawlCutPage ==
    LET body == PageBody("site", <<>>, TRUE, CrawlKwd, CrawlCnt, <<CrawlExc>>)
    IN  Page(body, 2, 6)

CrawlNoDigitPage ==
    LET body == PageBody("site", <<>>, FALSE, CrawlKwd, <<"x">>, <<CrawlExc>>)
    IN  Page(body, 2, Len(body))

CrawlDocPages == {CrawlGoodPage, CrawlCutPage, CrawlNoDigitPage}

\* a snapshot written by an earlier run of the notebook
OldSnapshot ==
    [k \in {Id2} |-> NormalizeArticle(parse_doc(CrawlGoodPage, k).article).article]

NoFile == [exists |-> FALSE, data |-> EmptyMap]

File(d) == [exists |-> TRUE, data |-> d]

Put(d, k, v) == [x \in DOMAIN d \cup {k} |-> IF x = k THEN v ELSE d[x]]

Range(f) == {f[i] : i \in DOMAIN f}

\* variant: the membership test is lost, every listed id is fetched
Seen_Never(id, d) == FALSE

\* `if id in ref_dict.keys(): continue`
Seen(id, d) == id \in DOMAIN d

\* variant: the loop does not break on an empty next-page path
LastPage_Never(next_url) == FALSE

\* `if next_url == '': break`
LastPage(next_url) == next_url = <<>>

\* position after one iteration of the for loop
AfterDoc(rest) == IF rest = <<>> THEN "listing" ELSE "docs"

PureIdle ==
    /\ arg = <<>>
    /\ ret = <<>>

CrawlIdle ==
    /\ site = EmptyMap
    /\ ref_dict = EmptyMap
    /\ corpus = NoFile
    /\ next_page = <<>>
    /\ id_list = <<>>
    /\ request = NoRequest
    /\ listed = {}
    /\ visited = {}
    /\ revisit = FALSE
    /\ runs = 0
    /\ writes = 0
    /\ corpus0 = NoFile
    /\ prevOK = FALSE

Init ==
    /\ pc = "load"
    /\ PureIdle
    /\ site = EmptyMap
    /\ ref_dict = EmptyMap
    /\ corpus \in {NoFile, File(OldSnapshot)}
    /\ next_page = <<>>
    /\ id_list = <<>>
    /\ request = NoRequest
    /\ listed = {}
    /\ visited = {}
    /\ revisit = FALSE
    /\ runs = 1
    /\ writes = 0
    /\ corpus0 = corpus
    /\ prevOK = FALSE

\* cell 2
LoadCorpus ==
    /\ pc = "load"
    /\ ref_dict' = IF corpus.exists THEN corpus.data ELSE EmptyMap
    /\ pc' = "start"
    /\ request' = NoRequest
    /\ UNCHANGED <<arg, ret, site, corpus, next_page, id_list, listed, visited,
                   revisit, runs, writes, corpus0, prevOK>>

\* cell 5, lines before the loop
StartCrawl ==
    /\ pc = "start"
    /\ next_page' = url_base \o start_path
    /\ pc' = "listing"
    /\ request' = NoRequest
    /\ UNCHANGED <<arg, ret, site, ref_dict, corpus, id_list, listed, visited,
                   revisit, runs, writes, corpus0, prevOK>>

\* urlopen raises in fetchDocIdAndNextPage
FetchListingFail ==
    /\ pc = "listing"
    /\ pc' = "error"
    /\ request' = NoRequest
    /\ visited' = visited \cup {next_page}
    /\ UNCHANGED <<arg, ret, site, ref_dict, corpus, next_page, id_list, listed,
                   revisit, runs, writes, corpus0, prevOK>>

\* one pass through the top of the while loop: fetch and scan the listing
\* page, then break or advance.  The site answers a URL it has answered
\* before with the same page.
FetchListing ==
    /\ pc = "listing"
    /\ \E page \in CrawlListings :
        /\ next_page \in DOMAIN site => page = site[next_page]
        /\ site' = Put(site, next_page, page)
        /\ visited' = visited \cup {next_page}
        /\ LET r == fetchDocIdAndNextPage(page) IN
           IF r.raised
           THEN /\ pc' = "error"
                /\ UNCHANGED <<next_page, id_list, listed, revisit>>
           ELSE /\ id_list' = r.id_list
                /\ listed' = listed \cup Range(r.id_list)
                /\ IF LastPage(r.next_page)
                   THEN /\ pc' = "normalize"
                        /\ UNCHANGED <<next_page, revisit>>
                   ELSE /\ next_page' = url_base \o r.next_page
                        /\ revisit' = (revisit \/ (r.next_page # <<>>
                                                    /\ next_page' \in visited'))
                        /\ pc' = AfterDoc(r.id_list)
    /\ request' = NoRequest
    /\ UNCHANGED <<arg, ret, ref_dict, corpus, runs, writes, corpus0, prevOK>>

\* for-loop iteration on an id that is already a key
SkipDoc ==
    /\ pc = "docs"
    /\ id_list # <<>>
    /\ Seen(Head(id_list), ref_dict)
    /\ id_list' = Tail(id_list)
    /\ pc' = AfterDoc(Tail(id_list))
    /\ request' = NoRequest
    /\ UNCHANGED <<arg, ret, site, ref_dict, corpus, next_page, listed, visited,
                   revisit, runs, writes, corpus0, prevOK>>

\* variant: the corpus accumulated so far is dumped when a fetch fails
FetchDocFail_Persist ==
    /\ pc = "docs"
    /\ id_list # <<>>
    /\ ~Seen(Head(id_list), ref_dict)
    /\ request' = [some |-> TRUE, id |-> Head(id_list)]
    /\ pc' = "error"
    /\ corpus' = File(ref_dict)
    /\ writes' = writes + 1
    /\ UNCHANGED <<arg, ret, site, ref_dict, next_page, id_list, listed,
                   visited, revisit, runs, corpus0, prevOK>>

\* for-loop iteration on a new id: urlopen raises in fetch_doc
FetchDocFail ==
    /\ pc = "docs"
    /\ id_list # <<>>
    /\ ~Seen(Head(id_list), ref_dict)
    /\ request' = [some |-> TRUE, id |-> Head(id_list)]
    /\ pc' = "error"
    /\ UNCHANGED <<arg, ret, site, ref_dict, corpus, next_page, id_list, listed,
                   visited, revisit, runs, writes, corpus0, prevOK>>

\* for-loop iteration on a new id: ref_dict[id] = parse_doc(fetch_doc(id), id)
FetchDoc ==
    /\ pc = "docs"
    /\ id_list # <<>>
    /\ ~Seen(Head(id_list), ref_dict)
    /\ request' = [some |-> TRUE, id |-> Head(id_list)]
    /\ \E page \in CrawlDocPages :
        LET r == parse_doc(page, Head(id_list)) IN
        IF r.raised # ""
        THEN /\ pc' = "error"
             /\ UNCHANGED <<ref_dict, id_list>>
        ELSE /\ ref_dict' = Put(ref_dict, Head(id_list), r.article)
             /\ id_list' = Tail(id_list)
             /\ pc' = AfterDoc(Tail(id_list))
    /\ UNCHANGED <<arg, ret, site, corpus, next_page, listed, visited, revisit,
                   runs, writes, corpus0, prevOK>>

\* cell 6.  Only the conversion of cnt can raise; when it does for an
\* article, the articles that the dictionary iteration reached before it
\* (any set of the others) are processed.
Normalize ==
    /\ pc = "normalize"
    /\ LET bad == {k \in DOMAIN ref_dict : NormCnt(ref_dict[k].cnt).raised # ""} IN
       IF bad = {}
       THEN /\ ref_dict' = [k \in DOMAIN ref_dict |-> NormalizeArticle(ref_dict[k]).article]
            /\ pc' = "save"
       ELSE /\ \E done \in SUBSET (DOMAIN ref_dict \ bad) :
                ref_dict' = [k \in DOMAIN ref_dict |->
                               IF k \in done THEN NormalizeArticle(ref_dict[k]).article
                               ELSE ref_dict[k]]
            /\ pc' = "error"
    /\ request' = NoRequest
    /\ UNCHANGED <<arg, ret, site, corpus, next_page, id_list, listed, visited,
                   revisit, runs, writes, corpus0, prevOK>>

\* cell 7
SaveCorpus ==
    /\ pc = "save"
    /\ corpus' = File(ref_dict)
    /\ writes' = writes + 1
    /\ pc' = "saved"
    /\ request' = NoRequest
    /\ UNCHANGED <<arg, ret, site, ref_dict, next_page, id_list, listed, visited,
                   revisit, runs, corpus0, prevOK>>

\* the operator runs the notebook again in a fresh kernel
NewRun ==
    /\ pc \in {"saved", "error"}
    /\ runs < MaxRuns
    /\ runs' = runs + 1
    /\ pc' = "load"
    /\ prevOK' = (pc = "saved")
    /\ corpus0' = corpus
    /\ writes' = 0
    /\ listed' = {}
    /\ visited' = {}
    /\ revisit' = FALSE
    /\ ref_dict' = EmptyMap
    /\ next_page' = <<>>
    /\ id_list' = <<>>
    /\ request' = NoRequest
    /\ UNCHANGED <<arg, ret, site, corpus>>

\* the operator runs the crawl cell again in the same kernel after an
\* error ("The cell below may need to be run several times"): ref_dict
\* keeps what the failed run accumulated
RerunCrawl ==
    /\ pc = "error"
    /\ runs < MaxRuns
    /\ runs' = runs + 1
    /\ pc' = "start"
    /\ prevOK' = FALSE
    /\ corpus0' = corpus
    /\ writes' = 0
    /\ listed' = {}
    /\ visited' = {}
    /\ revisit' = FALSE
    /\ request' = NoRequest
    /\ UNCHANGED <<arg, ret, site, ref_dict, corpus, next_page, id_list>>

\* the steps the notebook takes by itself
Step ==
    \/ LoadCorpus
    \/ StartCrawl
    \/ FetchListingFail
    \/ FetchListing
    \/ SkipDoc
    \/ FetchDocFail
    \/ FetchDoc
    \/ Normalize
    \/ SaveCorpus

Next ==
    \/ Step
    \/ NewRun
    \/ RerunCrawl

Spec == Init /\ [][Next]_vars

LiveSpec == Spec /\ WF_vars(Step)

(***************************************************************************)
(* SpecListing: the anchor scan on every page of ListingInputs.            *)
(***************************************************************************)
InitListing ==
    /\ pc = "listing_call"
    /\ arg \in ListingInputs
    /\ ret = <<>>
    /\ CrawlIdle

ScanListing ==
    /\ pc = "listing_call"
    /\ ret' = fetchDocIdAndNextPage(arg)
    /\ pc' = "listing_ret"
    /\ UNCHANGED <<arg, site, ref_dict, corpus, next_page, id_list, request,
                   listed, visited, revisit, runs, writes, corpus0, prevOK>>

NextListing == ScanListing

SpecListing == InitListing /\ [][NextListing]_vars

(***************************************************************************)
(* SpecDoc: parse_doc, then the supplementary processing of its article.   *)
(***************************************************************************)
InitDoc ==
    /\ pc = "doc_call"
    /\ arg \in DocInputs \cup {ScenarioPage}
    /\ ret = <<>>
    /\ CrawlIdle

ParseDoc ==
    /\ pc = "doc_call"
    /\ ret' = parse_doc(arg, Id1)
    /\ pc' = IF ret'.raised = "" THEN "doc_parsed" ELSE "doc_raised"
    /\ UNCHANGED <<arg, site, ref_dict, corpus, next_page, id_list, request,
                   listed, visited, revisit, runs, writes, corpus0, prevOK>>

NormalizeDoc ==
    /\ pc = "doc_parsed"
    /\ LET r == NormalizeArticle(ret.article) IN
       /\ ret' = [raised |-> r.raised,
                  where |-> IF r.raised = "" THEN "" ELSE "normalize",
                  article |-> r.article]
       /\ pc' = IF r.raised = "" THEN "doc_normalized" ELSE "doc_raised"
    /\ UNCHANGED <<arg, site, ref_dict, corpus, next_page, id_list, request,
                   listed, visited, revisit, runs, writes, corpus0, prevOK>>

NextDoc ==
    \/ ParseDoc
    \/ NormalizeDoc

SpecDoc == InitDoc /\ [][NextDoc]_vars

(***************************************************************************)
(* SpecNorm: the supplementary processing applied twice to an article.     *)
(* After the second pass arg holds the article the first pass produced.    *)
(***************************************************************************)
InitNorm ==
    /\ pc = "norm_call"
    /\ arg \in NormInputs
    /\ ret = <<>>
    /\ CrawlIdle

NormalizeOnce ==
    /\ pc = "norm_call"
    /\ ret' = NormalizeArticle(arg)
    /\ pc' = "norm_once"
    /\ UNCHANGED <<arg, site, ref_dict, corpus, next_page, id_list, request,
                   listed, visited, revisit, runs, writes, corpus0, prevOK>>

NormalizeTwice ==
    /\ pc = "norm_once"
    /\ arg' = ret.article
    /\ ret' = NormalizeArticle(ret.article)
    /\ pc' = "norm_twice"
    /\ UNCHANGED <<site, ref_dict, corpus, next_page, id_list, request,
                   listed, visited, revisit, runs, writes, corpus0, prevOK>>

NextNorm ==
    \/ NormalizeOnce
    \/ NormalizeTwice

SpecNorm == InitNorm /\ [][NextNorm]_vars

(***************************************************************************)
(* Properties.                                                             *)
(***************************************************************************)
\* cnt is an integer and kwd a list of trimmed, lower-case tokens
IsNormalized(a) ==
    /\ a.cnt.type = "int"
    /\ a.kwd.type = "list"
    /\ \A i \in 1..Len(a.kwd.items) :
          a.kwd.items[i] = Lower(Strip(a.kwd.items[i]))

\* the part of a link target after its last "/"
TrailingSegment(href) ==
    LET slashes == {i \in 1..Len(href) : href[i] = "/"}
        last == IF slashes = {} THEN 0
                ELSE CHOOSE i \in slashes : \A j \in slashes : j <= i
    IN  SubSeq(href, last + 1, Len(href))

IsSixDigits(seg) == Len(seg) = IdLen /\ AllDigits(seg, 1, Len(seg))

\* the trailing segments of the anchors whose trailing segment is six digits
SixDigitTargets(anchors) ==
    LET hit == SelectSeq(anchors, LAMBDA a : a.has_href /\ IsSixDigits(TrailingSegment(a.href)))
    IN  [i \in 1..Len(hit) |-> TrailingSegment(hit[i].href)]

\* C1: the crawl loop never requests the page of an id that is a key of
\* ref_dict and never changes or removes the article of a key; a run that
\* loads what a completed run over the same site just saved keeps ref_dict
\* equal to the loaded snapshot, through the whole run.
C1_NoRefetchNoOverwrite ==
    /\ [][/\ request'.some => request'.id \notin DOMAIN ref_dict
          /\ pc \in {"start", "listing", "docs"} =>
                \A k \in DOMAIN ref_dict :
                    k \in DOMAIN ref_dict' /\ ref_dict'[k] = ref_dict[k]]_vars
    /\ []((prevOK /\ pc # "load") => ref_dict = corpus0.data)

\* a second run, over a listing that names a stored id, ran to its end
C1_Witness ==
    /\ prevOK
    /\ pc = "saved"
    /\ Id1 \in listed
    /\ Id1 \in DOMAIN corpus0.data

\* C2: when the notebook ran to its end, every id that a listing scan of
\* the run returned is a key of ref_dict.
C2_AllListedStored == pc = "saved" => listed \subseteq DOMAIN ref_dict

\* C3: json.dump runs at most once per run, only as the step from save to
\* saved, that is after the loop ended and the processing of cell 6 ran
\* over ref_dict; a run that raised wrote nothing, the file holds what it
\* held when the run began, and the run takes no further step.
C3_SnapshotOnlyAtEnd ==
    /\ [](/\ writes <= 1
          /\ writes = 1 =>
                /\ pc = "saved"
                /\ corpus = File(ref_dict)
                /\ \A k \in DOMAIN ref_dict : IsNormalized(ref_dict[k])
          /\ pc = "error" => (writes = 0 /\ corpus = corpus0))
    /\ [][/\ (corpus' # corpus \/ writes' > writes) => (pc = "save" /\ pc' = "saved")
          /\ pc = "error" => runs' = runs + 1]_vars

\* a run raised after it had stored an article that the file does not hold
C3_Witness ==
    /\ pc = "error"
    /\ Id1 \in DOMAIN ref_dict
    /\ Id1 \notin DOMAIN corpus.data

ScenarioExcOriginal ==
    <<"s", "o", "m", "e", " ", "e", "x", "c", "e", "r", "p", "t", " ", "t", "e", "x", "t">>

ScenarioExcAmended ==
    <<"p", "u", "b", "l", "i", "s", "h", "e", "d", " ", "i", "n", " ",
      "j", "o", "u", "r", "n", "a", "l", " ", "o", "f", " ", "s", "y", "n", "t", "a", "x", " ",
      "k", "e", "y", "w", "o", "r", "d", "s", " ",
      "s", "y", "n", "t", "a", "x", " ", "s", "e", "m", "a", "n", "t", "i", "c", "s", " ",
      "d", "o", "w", "n", "l", "o", "a", "d", "e", "d", " ", "4", "2", " ", "t", "i", "m", "e", "s", " ",
      "d", "o", "c", " ", "t", "i", "t", "l", "e", " ",
      "s", "o", "m", "e", " ", "e", "x", "c", "e", "r", "p", "t", " ", "t", "e", "x", "t">>

ScenarioArticle(exc) ==
    [ref |-> Id1,
     tit |-> <<"d", "o", "c", " ", "t", "i", "t", "l", "e">>,
     dat |-> <<"2", "0", "2", "0", "-", "0", "1", "-", "0", "1">>,
     aut |-> << <<"j", "a", "n", "e", " ", "d", "o", "e">> >>,
     pub |-> <<"j", "o", "u", "r", "n", "a", "l", " ", "o", "f", " ", "s", "y", "n", "t", "a", "x">>,
     kwd |-> ListVal(<< <<"s", "y", "n", "t", "a", "x">>,
                        <<"s", "e", "m", "a", "n", "t", "i", "c", "s">> >>),
     cnt |-> IntVal(42),
     exc |-> exc]

\* C4 (as amended): on the scenario page, parse_doc and the processing of
\* cell 6 give tit, aut, dat, pub, kwd and cnt as stated, and exc is every
\* line between the date line and "format:" (the field lines and the second
\* title line included), joined by spaces, without punctuation.
C4_ScenarioAmended ==
    (pc = "doc_normalized" /\ arg = ScenarioPage)
        => ret.article = ScenarioArticle(ScenarioExcAmended)

C4_Witness == pc = "doc_normalized" /\ arg = ScenarioPage

\* C4 (as stated): the same, with exc = 'some excerpt text'.
C4_ScenarioOriginal ==
    (pc = "doc_normalized" /\ arg = ScenarioPage)
        => ret.article = ScenarioArticle(ScenarioExcOriginal)

C6_NextIffNextText ==
    (pc = "listing_ret" /\ ~ret.raised) =>
        /\ ret.next_page = <<>> <=> ~\E i \in 1..Len(arg) : SearchNext(arg[i].text)
        /\ ret.next_page # <<>> =>
              \E i \in 1..Len(arg) : SearchNext(arg[i].text) /\ arg[i].href = ret.next_page

\* C7: the id list is, in document order, the trailing segments of the
\* anchors whose trailing path segment is exactly six digits.
C7_IdsAreSixDigitSegments ==
    (pc = "listing_ret" /\ ~ret.raised) => ret.id_list = SixDigitTargets(arg)

\* C8: once the processing of cell 6 has completed, every article of
\* ref_dict has an integer cnt and a list of trimmed lower-case keywords.
C8_NormalizedAfterPass ==
    pc \in {"save", "saved"} => \A k \in DOMAIN ref_dict : IsNormalized(ref_dict[k])

\* the pass completed over a loaded article and a newly crawled one
C8_Witness ==
    /\ pc = "save"
    /\ corpus0.exists
    /\ DOMAIN ref_dict = {Id1, Id2}

\* C9: the extraction of pub never raises; pub is the line after the first
\* "published in:" line, or 'N/A' when there is no such line.
C9_PubNeverRaises ==
    pc \in {"doc_parsed", "doc_raised"} =>
        /\ ret.where # "pub"
        /\ ret.raised = "" =>
              LET b == TextLines(arg.body)
                  i == IndexOf(b, MarkPub)
              IN  ret.article.pub = IF i = 0 THEN NotAvailable ELSE b[i + 1]

\* C10 (as amended): a run of the crawl cell reaches saved or error, or
\* follows a next link to a listing URL it has already fetched.
C10_DoneUnlessCycle ==
    (pc = "start") ~> (pc \in {"saved", "error"} \/ revisit)

\* a run over two listing pages ran to its end
C10_Witness ==
    /\ pc = "saved"
    /\ Cardinality(visited) = 2
    /\ ~revisit

\* C10 (as stated): a run of the crawl cell reaches saved or error.
C10_AlwaysDone == (pc = "start") ~> (pc \in {"saved", "error"})

====
